---------------------------- MODULE Spec2Model ----------------------------
(***************************************************************************)
(* Model of frontend/src/Dashboards/StockDashboard.jsx: the component      *)
(* state of StockDashboard, the symbols fetch issued on mount, the three   *)
(* fetches joined by Promise.all in handleStockSelect, and the pure        *)
(* helpers convertToInr and transformMetrics.                              *)
(*                                                                         *)
(* Numbers are fixed-point integers counting ten-thousandths, so 1.2045 is *)
(* 12045 and 83 is 830000.  The code computes in IEEE doubles; the inputs  *)
(* used here are values whose product with 83 the double arithmetic        *)
(* rounds the same way as exact decimal arithmetic does.                   *)
(*                                                                         *)
(* JSON values are records with a kind field: kind "null" stands for null  *)
(* (and undefined), "array" carries items, "object" carries fields.  An    *)
(* optional field is the empty sequence when it is missing or null and a   *)
(* one-element sequence when it is present.                                *)
(*                                                                         *)
(* One action is one browser task together with the promise reactions it   *)
(* triggers: the reactions of a settled promise run as microtasks before   *)
(* any other click or network event is handled, and React applies the      *)
(* state updates made in them together.                                    *)
(***************************************************************************)
EXTENDS Integers, Sequences, FiniteSets, TLC

VARIABLES selectedStock, mergedData, stockData, loading, companies, metrics,
          symbolsReq, inflight, settled

vars == <<selectedStock, mergedData, stockData, loading, companies, metrics,
          symbolsReq, inflight, settled>>

-----------------------------------------------------------------------------
(* Bounds *)

\* the most selections whose fetches are in flight at once
MaxInFlight == 2

\* the longest array a response body carries in SpecBuilder
MaxLen == 2

-----------------------------------------------------------------------------
(* JSON values *)

Null == [kind |-> "null"]

Arr(items) == [kind |-> "array", items |-> items]

None == <<>>

Some(v) == <<v>>

\* value ?? dflt
Coalesce(value, dflt) == IF value = None THEN dflt ELSE value[1]

Range(s) == {s[i] : i \in 1..Len(s)}

SeqsUpTo(S, n) == UNION {[1..k -> S] : k \in 0..n}

-----------------------------------------------------------------------------
(* Pure helpers *)

USD_TO_INR == 83

\* Number.parseFloat(x.toFixed(2)): the nearest multiple of 0.01, a tie going
\* away from zero
toFixed2(x) ==
    IF x >= 0 THEN ((x + 50) \div 100) * 100
    ELSE -(((50 - x) \div 100) * 100)

\* a conversion that cuts the third decimal off instead of rounding
convertToInrTruncating(value) ==
    LET x == Coalesce(value, 0) * USD_TO_INR
    IN  IF x >= 0 THEN (x \div 100) * 100 ELSE -(((-x) \div 100) * 100)

convertToInr(value) == toFixed2(Coalesce(value, 0) * USD_TO_INR)

\* JavaScript truthiness of an optional string field
Truthy(field) == field # None /\ field[1] # ""

DefaultConfusionMatrix == [tn |-> 0, fp |-> 0, fn |-> 0, tp |-> 0]

NoRegression == [mae |-> None, rmse |-> None, mape |-> None, r2 |-> None]

NoClassification ==
    [accuracy |-> None, precision |-> None, recall |-> None, f1 |-> None,
     confusion_matrix |-> None]

\* a conversion applied to mape as well
transformMetricsConvertingAll(metricsData) ==
    IF metricsData.kind = "null" \/ Truthy(metricsData.error) THEN Null
    ELSE
      LET regression == Coalesce(metricsData.regression, NoRegression)
          classification == Coalesce(metricsData.classification, NoClassification)
      IN  [metricsData EXCEPT
             !.regression =
                [mae  |-> convertToInr(Some(Coalesce(regression.mae, 0))),
                 rmse |-> convertToInr(Some(Coalesce(regression.rmse, 0))),
                 mape |-> convertToInr(Some(Coalesce(regression.mape, 0))),
                 r2   |-> Coalesce(regression.r2, 0)],
             !.classification =
                [accuracy  |-> Coalesce(classification.accuracy, 0),
                 precision |-> Coalesce(classification.precision, 0),
                 recall    |-> Coalesce(classification.recall, 0),
                 f1        |-> Coalesce(classification.f1, 0),
                 confusion_matrix |->
                    Coalesce(classification.confusion_matrix,
                             DefaultConfusionMatrix)]]

\* the zero confusion matrix is the default of a missing classification
\* section only
transformMetricsNoDefaults(metricsData) ==
    IF metricsData.kind = "null" \/ Truthy(metricsData.error) THEN Null
    ELSE
      LET regression == Coalesce(metricsData.regression, NoRegression)
          classification ==
              Coalesce(metricsData.classification,
                       [NoClassification EXCEPT
                          !.confusion_matrix = Some(DefaultConfusionMatrix)])
      IN  [metricsData EXCEPT
             !.regression =
                [mae  |-> convertToInr(Some(Coalesce(regression.mae, 0))),
                 rmse |-> convertToInr(Some(Coalesce(regression.rmse, 0))),
                 mape |-> Coalesce(regression.mape, 0),
                 r2   |-> Coalesce(regression.r2, 0)],
             !.classification =
                [accuracy  |-> Coalesce(classification.accuracy, 0),
                 precision |-> Coalesce(classification.precision, 0),
                 recall    |-> Coalesce(classification.recall, 0),
                 f1        |-> Coalesce(classification.f1, 0),
                 confusion_matrix |->
                    Coalesce(classification.confusion_matrix, Null)]]

\* metricsData is a JSON null or a JSON object; the object's fields other
\* than regression and classification are kept by the spread
transformMetrics(metricsData) ==
    IF metricsData.kind = "null" \/ Truthy(metricsData.error) THEN Null
    ELSE
      LET regression == Coalesce(metricsData.regression, NoRegression)
          classification == Coalesce(metricsData.classification, NoClassification)
      IN  [metricsData EXCEPT
             !.regression =
                [mae  |-> convertToInr(Some(Coalesce(regression.mae, 0))),
                 rmse |-> convertToInr(Some(Coalesce(regression.rmse, 0))),
                 mape |-> Coalesce(regression.mape, 0),
                 r2   |-> Coalesce(regression.r2, 0)],
             !.classification =
                [accuracy  |-> Coalesce(classification.accuracy, 0),
                 precision |-> Coalesce(classification.precision, 0),
                 recall    |-> Coalesce(classification.recall, 0),
                 f1        |-> Coalesce(classification.f1, 0),
                 confusion_matrix |->
                    Coalesce(classification.confusion_matrix,
                             DefaultConfusionMatrix)]]

-----------------------------------------------------------------------------
(* The handlers of the join in handleStockSelect *)

EmptySeries == <<>>

\* the state handleStockSelect's handlers write
View(sd, md, m, l) ==
    [stockData |-> sd, mergedData |-> md, metrics |-> m, loading |-> l]

\* value || []
OrEmptyArray(value) == IF value.kind = "null" THEN Arr(<<>>) ELSE value

\* (value || []).map(d => ... d.field ...) raises a TypeError when value is
\* not an array (map is not a function) or an element is null
MapThrows(value) ==
    LET a == OrEmptyArray(value)
    IN  \/ a.kind # "array"
        \/ \E i \in 1..Len(a.items) : a.items[i].kind = "null"

convertedHistorical(historicalData) ==
    LET items == OrEmptyArray(historicalData).items
    IN  [i \in 1..Len(items) |->
           [items[i] EXCEPT !.price = convertToInr(items[i].price)]]

historicalProjection(converted) ==
    [i \in 1..Len(converted) |->
       [date |-> converted[i].date, price |-> converted[i].price]]

predictionProjection(predictionData) ==
    LET items == OrEmptyArray(predictionData).items
    IN  [i \in 1..Len(items) |->
           [date |-> items[i].ds, prediction |-> convertToInr(items[i].yhat)]]

\* a merge that joins the two series by date: a forecast point whose date a
\* historical point already carries is dropped
mergedJoiningByDate(converted, predictionData) ==
    LET hp == historicalProjection(converted)
        pp == predictionProjection(predictionData)
        keep == SelectSeq(pp, LAMBDA q : \A i \in 1..Len(hp) : hp[i].date # q.date)
    IN  hp \o keep

merged(converted, predictionData) ==
    historicalProjection(converted) \o predictionProjection(predictionData)

\* a success handler that does not call setMetrics
thenHandlerKeepingMetrics(view, historicalData, predictionData, metricsData) ==
    IF MapThrows(historicalData) THEN [view |-> view, threw |-> TRUE]
    ELSE
      LET converted == convertedHistorical(historicalData)
      IN  IF MapThrows(predictionData)
          THEN [view |-> [view EXCEPT !.stockData = converted], threw |-> TRUE]
          ELSE [view |-> View(converted, merged(converted, predictionData),
                              view.metrics, FALSE),
                threw |-> FALSE]

\* the success handler: the state it leaves, and whether it raised.  It has
\* called setStockData before the forecast is mapped.
thenHandler(view, historicalData, predictionData, metricsData) ==
    IF MapThrows(historicalData) THEN [view |-> view, threw |-> TRUE]
    ELSE
      LET converted == convertedHistorical(historicalData)
      IN  IF MapThrows(predictionData)
          THEN [view |-> [view EXCEPT !.stockData = converted], threw |-> TRUE]
          ELSE [view |-> View(converted, merged(converted, predictionData),
                              transformMetrics(metricsData), FALSE),
                threw |-> FALSE]

\* a failure handler that does not call setMetrics(null)
catchHandlerKeepingMetrics(view) ==
    View(EmptySeries, EmptySeries, view.metrics, FALSE)

\* a failure handler that does not call setLoading(false)
catchHandlerKeepingLoading(view) ==
    View(EmptySeries, EmptySeries, Null, view.loading)

\* the failure handler
catchHandler(view) == View(EmptySeries, EmptySeries, Null, FALSE)

-----------------------------------------------------------------------------
(* Fetches and joins *)

Endpoints == {"stock", "predict", "metrics"}

Pending == [st |-> "pending", ok |-> FALSE, body |-> Null]

Rejected == [st |-> "rejected", ok |-> FALSE, body |-> Null]

\* the fetch completed with HTTP status ok or not, and res.json() parsed body
Resolved(ok, body) == [st |-> "resolved", ok |-> ok, body |-> body]

\* the join of one handleStockSelect call; latest says that no selection was
\* made after it
NewJoin(company) ==
    [company |-> company, latest |-> TRUE,
     stock |-> Pending, predict |-> Pending, metrics |-> Pending]

AllResolved(join) == \A k \in Endpoints : join[k].st = "resolved"

AnyRejected(join) == \E k \in Endpoints : join[k].st = "rejected"

CurrentView == View(stockData, mergedData, metrics, loading)

RemoveAt(s, i) == [j \in 1..(Len(s) - 1) |-> IF j < i THEN s[j] ELSE s[j + 1]]

\* a join whose result is dropped when a later selection has been made
joinFulfilledUnlessStale(view, join) ==
    IF ~join.latest THEN [view |-> view, threw |-> FALSE]
    ELSE
      LET r == thenHandler(view, join.stock.body, join.predict.body,
                           join.metrics.body)
      IN  IF r.threw THEN [view |-> catchHandler(r.view), threw |-> TRUE]
          ELSE r

\* Promise.all fulfilled: the success handler runs, and the failure handler
\* after it when it raised
joinFulfilled(view, join) ==
    LET r == thenHandler(view, join.stock.body, join.predict.body,
                         join.metrics.body)
    IN  IF r.threw THEN [view |-> catchHandler(r.view), threw |-> TRUE]
        ELSE r

-----------------------------------------------------------------------------
(* Responses of the backend *)

CompanyA == [symbol |-> "AAA", name |-> "Alpha"]

CompanyB == [symbol |-> "BBB", name |-> "Beta"]

Companies == {CompanyA, CompanyB}

SymbolLists == {<<>>, <<CompanyA, CompanyB>>, <<CompanyB>>}

HistoricalPoint(date, price, volume) ==
    [kind |-> "object", date |-> date, price |-> price, volume |-> volume]

ForecastPoint(ds, yhat) == [kind |-> "object", ds |-> ds, yhat |-> yhat]

MetricsObject(error, regression, classification) ==
    [kind |-> "object", error |-> error, regression |-> regression,
     classification |-> classification]

\* {"error": "not found"}
ErrorBody == MetricsObject(Some("not found"), None, None)

FullRegression ==
    [mae |-> Some(10000), rmse |-> Some(20000), mape |-> Some(30000),
     r2 |-> Some(9000)]

PartialRegression ==
    [mae |-> Some(12055), rmse |-> None, mape |-> None, r2 |-> Some(9000)]

FullClassification ==
    [accuracy |-> Some(8000), precision |-> Some(7000), recall |-> Some(6000),
     f1 |-> Some(6500),
     confusion_matrix |-> Some([tn |-> 1, fp |-> 2, fn |-> 3, tp |-> 4])]

PartialClassification ==
    [accuracy |-> Some(8000), precision |-> None, recall |-> None,
     f1 |-> Some(6500), confusion_matrix |-> None]

HistoricalOf(company) ==
    IF company = CompanyA
    THEN <<HistoricalPoint(Some("d1"), Some(12045), Some(5)),
           HistoricalPoint(Some("d2"), Some(12055), None)>>
    ELSE <<HistoricalPoint(Some("d1"), Some(20000), Some(7))>>

ForecastOf(company) ==
    IF company = CompanyA
    THEN <<ForecastPoint(Some("d3"), Some(10000))>>
    ELSE <<ForecastPoint(Some("d2"), Some(1250)),
           ForecastPoint(Some("d3"), Some(-15000))>>

MetricsOf(company) ==
    IF company = CompanyA
    THEN MetricsObject(None, Some(FullRegression), Some(FullClassification))
    ELSE MetricsObject(None, Some(PartialRegression), None)

\* what a fetch of the dashboard can resolve with
Outcomes(k, company) ==
    CASE k = "stock"   -> {Resolved(TRUE, Arr(HistoricalOf(company))),
                           Resolved(FALSE, ErrorBody)}
      [] k = "predict" -> {Resolved(TRUE, Arr(ForecastOf(company)))}
      [] k = "metrics" -> {Resolved(TRUE, MetricsOf(company))}

HistoricalElements ==
    {Null,
     HistoricalPoint(Some("d1"), Some(12045), Some(5)),
     HistoricalPoint(Some("d2"), Some(12055), None),
     HistoricalPoint(None, None, None)}

ForecastElements ==
    {Null,
     ForecastPoint(Some("d2"), Some(1250)),
     ForecastPoint(Some("d3"), Some(-15000)),
     ForecastPoint(None, None)}

MetricsBodies ==
    {Null} \cup
    {MetricsObject(e, r, c) :
        e \in {None, Some(""), Some("x")},
        r \in {None, Some(FullRegression), Some(PartialRegression)},
        c \in {None, Some(FullClassification), Some(PartialClassification),
               Some([FullClassification EXCEPT !.confusion_matrix = None])}}

\* what a fetch can resolve with in SpecBuilder
BuilderOutcomes(k) ==
    CASE k = "stock" ->
           {Resolved(TRUE, Arr(s)) : s \in SeqsUpTo(HistoricalElements, MaxLen)}
           \cup {Resolved(TRUE, Null), Resolved(FALSE, ErrorBody),
                 Resolved(FALSE, Arr(HistoricalOf(CompanyB)))}
      [] k = "predict" ->
           {Resolved(TRUE, Arr(s)) : s \in SeqsUpTo(ForecastElements, MaxLen)}
           \cup {Resolved(TRUE, Null), Resolved(FALSE, ErrorBody),
                 Resolved(FALSE, Arr(ForecastOf(CompanyA)))}
      [] k = "metrics" ->
           {Resolved(TRUE, b) : b \in MetricsBodies}
           \cup {Resolved(FALSE, ErrorBody),
                 Resolved(FALSE, MetricsOf(CompanyA))}

-----------------------------------------------------------------------------
(* The component *)

Init ==
    /\ selectedStock = Null
    /\ mergedData = EmptySeries
    /\ stockData = EmptySeries
    /\ loading = FALSE
    /\ companies = <<>>
    /\ metrics = Null
    /\ symbolsReq = "pending"
    /\ inflight = <<>>
    /\ settled = Null

\* handleStockSelect up to the point where its three fetches are issued
handleStockSelect(company) ==
    /\ loading' = TRUE
    /\ selectedStock' = company
    /\ inflight' = Append([i \in 1..Len(inflight) |->
                             [inflight[i] EXCEPT !.latest = FALSE]],
                          NewJoin(company))
    /\ UNCHANGED <<mergedData, stockData, metrics, settled>>

\* a symbols handler that fills the list and selects nothing
SymbolsResolveWithoutSelect(items) ==
    /\ symbolsReq = "pending"
    /\ symbolsReq' = "done"
    /\ companies' = items
    /\ UNCHANGED <<selectedStock, mergedData, stockData, loading, metrics,
                   inflight, settled>>

\* the symbols fetch resolves with a list
SymbolsResolve(items) ==
    /\ symbolsReq = "pending"
    /\ symbolsReq' = "done"
    /\ companies' = items
    /\ IF Len(items) > 0
       THEN handleStockSelect(items[1])
       ELSE UNCHANGED <<selectedStock, mergedData, stockData, loading, metrics,
                        inflight, settled>>

\* the symbols fetch fails
SymbolsReject ==
    /\ symbolsReq = "pending"
    /\ symbolsReq' = "done"
    /\ companies' = <<>>
    /\ UNCHANGED <<selectedStock, mergedData, stockData, loading, metrics,
                   inflight, settled>>

\* a click on an item of the symbol list
Select(company) ==
    /\ company \in Range(companies)
    /\ Len(inflight) < MaxInFlight
    /\ handleStockSelect(company)
    /\ UNCHANGED <<companies, symbolsReq>>

Commit(view) ==
    /\ stockData' = view.stockData
    /\ mergedData' = view.mergedData
    /\ metrics' = view.metrics
    /\ loading' = view.loading

\* a stock fetch whose series is written as soon as it resolves
FetchResolveEager(i, k, o) ==
    /\ i \in 1..Len(inflight)
    /\ inflight[i][k].st = "pending"
    /\ LET join == [inflight[i] EXCEPT ![k] = o]
       IN  IF AllResolved(join)
           THEN LET r == joinFulfilled(CurrentView, join)
                IN  /\ Commit(r.view)
                    /\ inflight' = RemoveAt(inflight, i)
                    /\ settled' = [join |-> join, threw |-> r.threw,
                                   kind |-> "join"]
           ELSE /\ inflight' = [inflight EXCEPT ![i] = join]
                /\ stockData' = IF k = "stock" /\ ~MapThrows(o.body)
                                THEN convertedHistorical(o.body)
                                ELSE stockData
                /\ UNCHANGED <<mergedData, metrics, loading, settled>>
    /\ UNCHANGED <<selectedStock, companies, symbolsReq>>

\* fetch k of join i resolves with outcome o; when it is the join's last, the
\* join is fulfilled and its handlers run
FetchResolve(i, k, o) ==
    /\ i \in 1..Len(inflight)
    /\ inflight[i][k].st = "pending"
    /\ LET join == [inflight[i] EXCEPT ![k] = o]
       IN  IF AllResolved(join)
           THEN LET r == joinFulfilled(CurrentView, join)
                IN  /\ Commit(r.view)
                    /\ inflight' = RemoveAt(inflight, i)
                    /\ settled' = [join |-> join, threw |-> r.threw,
                                   kind |-> "join"]
           ELSE /\ inflight' = [inflight EXCEPT ![i] = join]
                /\ UNCHANGED <<stockData, mergedData, metrics, loading, settled>>
    /\ UNCHANGED <<selectedStock, companies, symbolsReq>>

\* fetch k of join i rejects (no response, or a body that is not JSON): the
\* join rejects at once and the failure handler runs; what the join's other
\* fetches do afterwards is ignored
FetchReject(i, k) ==
    /\ i \in 1..Len(inflight)
    /\ inflight[i][k].st = "pending"
    /\ Commit(catchHandler(CurrentView))
    /\ inflight' = RemoveAt(inflight, i)
    /\ settled' = [join |-> [inflight[i] EXCEPT ![k] = Rejected],
                   threw |-> FALSE, kind |-> "join"]
    /\ UNCHANGED <<selectedStock, companies, symbolsReq>>

Next ==
    \/ \E items \in SymbolLists : SymbolsResolve(items)
    \/ SymbolsReject
    \/ \E company \in Companies : Select(company)
    \/ \E i \in 1..Len(inflight), k \in Endpoints :
          \E o \in Outcomes(k, inflight[i].company) : FetchResolve(i, k, o)
    \/ \E i \in 1..Len(inflight), k \in Endpoints : FetchReject(i, k)

Spec == Init /\ [][Next]_vars

\* one selection whose three fetches are in flight, resolving with any of the
\* bodies of BuilderOutcomes
InitBuilder ==
    /\ selectedStock = CompanyA
    /\ mergedData = EmptySeries
    /\ stockData = EmptySeries
    /\ loading = TRUE
    /\ companies = <<CompanyA, CompanyB>>
    /\ metrics = Null
    /\ symbolsReq = "done"
    /\ inflight = <<NewJoin(CompanyA)>>
    /\ settled = Null

NextBuilder ==
    \/ \E k \in Endpoints : \E o \in BuilderOutcomes(k) : FetchResolve(1, k, o)
    \/ \E k \in Endpoints : FetchReject(1, k)

SpecBuilder == InitBuilder /\ [][NextBuilder]_vars

\* a fetch in flight settles
FetchSettles ==
    \E i \in 1..Len(inflight), k \in Endpoints :
       \/ \E o \in Outcomes(k, inflight[i].company) : FetchResolve(i, k, o)
       \/ FetchReject(i, k)

\* the symbols fetch has resolved with the list <<BBB>> and BBB is selected
InitLive ==
    /\ selectedStock = CompanyB
    /\ mergedData = EmptySeries
    /\ stockData = EmptySeries
    /\ loading = TRUE
    /\ companies = <<CompanyB>>
    /\ metrics = Null
    /\ symbolsReq = "done"
    /\ inflight = <<NewJoin(CompanyB)>>
    /\ settled = Null

NextLive ==
    \/ \E company \in Companies : Select(company)
    \/ FetchSettles

\* the dashboard after mount, selections made at any time, when no fetch
\* stays pending forever
SpecLive == InitLive /\ [][NextLive]_vars /\ WF_vars(FetchSettles)

-----------------------------------------------------------------------------
(* Values derived at render *)

\* a / b as JavaScript computes it: a ratio, or Infinity, -Infinity or NaN
\* when b is 0
Quotient(a, b) ==
    IF b # 0 THEN [kind |-> "finite", num |-> a, den |-> b]
    ELSE [kind |-> IF a = 0 THEN "NaN"
                   ELSE IF a > 0 THEN "Infinity" ELSE "-Infinity",
          num |-> 0, den |-> 1]

\* q * n for n > 0
Times(q, n) == IF q.kind = "finite" THEN [q EXCEPT !.num = q.num * n] ELSE q

\* a change taken against the first point of the series
getPriceChangeFromFirst(series) ==
    IF Len(series) < 2
    THEN [change |-> 0, percentage |-> Quotient(0, 1)]
    ELSE LET current == series[Len(series)].price
             previous == series[1].price
             change == current - previous
         IN  [change |-> change,
              percentage |-> Times(Quotient(change, previous), 100)]

\* getPriceChange reads stockData
getPriceChange(series) ==
    IF Len(series) < 2
    THEN [change |-> 0, percentage |-> Quotient(0, 1)]
    ELSE LET current == series[Len(series)].price
             previous == series[Len(series) - 1].price
             change == current - previous
         IN  [change |-> change,
              percentage |-> Times(Quotient(change, previous), 100)]

\* the longest historical series of SpecPrice
MaxPoints == 3

\* raw prices 1.2048 and 1.3253 convert to 100.00 and 110.00
PriceElements ==
    {HistoricalPoint(Some("d1"), Some(12048), None),
     HistoricalPoint(Some("d2"), Some(13253), None),
     HistoricalPoint(Some("d3"), None, None),
     HistoricalPoint(Some("d4"), Some(-12048), None)}

PriceOutcomes(k) ==
    CASE k = "stock" ->
           {Resolved(TRUE, Arr(s)) : s \in SeqsUpTo(PriceElements, MaxPoints)}
      [] k = "predict" -> {Resolved(TRUE, Arr(ForecastOf(CompanyA)))}
      [] k = "metrics" -> {Resolved(TRUE, MetricsOf(CompanyA))}

NextPrice ==
    \E k \in Endpoints : \E o \in PriceOutcomes(k) : FetchResolve(1, k, o)

\* one selection whose stock fetch resolves with any series of PriceElements
SpecPrice == InitBuilder /\ [][NextPrice]_vars

-----------------------------------------------------------------------------
(* Properties *)

HasSettled == settled.kind = "join"

\* the join that settled last fulfilled and its success handler completed
Committed == HasSettled /\ AllResolved(settled.join) /\ ~settled.threw

EmptyTriple == stockData = <<>> /\ mergedData = <<>> /\ metrics = Null

\* the items of a stock or predict body that is null or an array
ItemsOf(body) == IF body.kind = "array" THEN body.items ELSE <<>>

RawHistorical == ItemsOf(settled.join.stock.body)

RawForecast == ItemsOf(settled.join.predict.body)

RawMetrics == settled.join.metrics.body

\* r is x rounded to 2 decimals, a tie going away from zero
IsRounded(r, x) ==
    /\ r % 100 = 0
    /\ IF x >= 0 THEN r - 50 <= x /\ x < r + 50
                 ELSE r - 50 < x /\ x <= r + 50

\* C1: when at least one fetch of the join that settled last failed, the
\* series are empty and the metrics are null, whatever its other fetches
\* returned and whatever was displayed before.
C1_AllOrNothingJoin ==
    (HasSettled /\ AnyRejected(settled.join)) => EmptyTriple

C1_Witness ==
    /\ HasSettled
    /\ settled.join.metrics.st = "rejected"
    /\ settled.join.stock = Resolved(TRUE, Arr(HistoricalOf(CompanyB)))
    /\ settled.join.predict = Resolved(TRUE, Arr(ForecastOf(CompanyB)))
    /\ companies = <<CompanyA, CompanyB>>
    /\ inflight = <<>>
    /\ EmptyTriple

\* C2: the result of a join that settles after a later selection was made
\* is written all the same: the view is that join's result (or its failure
\* reset) whether or not its symbol is still the selected one.
C2_StaleJoinOverwrites ==
    (HasSettled /\ ~settled.join.latest) =>
       IF AllResolved(settled.join) /\ ~settled.threw
       THEN /\ ~MapThrows(settled.join.stock.body)
            /\ ~MapThrows(settled.join.predict.body)
            /\ stockData = convertedHistorical(settled.join.stock.body)
            /\ mergedData = merged(stockData, settled.join.predict.body)
            /\ metrics = transformMetrics(RawMetrics)
       ELSE EmptyTriple

\* selectedStock is B, B's join has settled, and the view holds A's data
C2_Witness ==
    /\ HasSettled
    /\ ~settled.join.latest
    /\ settled.join.company = CompanyA
    /\ selectedStock = CompanyB
    /\ inflight = <<>>
    /\ stockData = convertedHistorical(Arr(HistoricalOf(CompanyA)))
    /\ mergedData = merged(stockData, Arr(ForecastOf(CompanyA)))
    /\ metrics = transformMetrics(MetricsOf(CompanyA))

\* C3: when a fetch of the join that settled last completed with a non-OK
\* status, the series are empty and the metrics are null.
C3_NonOkStatusResets ==
    (HasSettled /\ \E k \in Endpoints :
        settled.join[k].st = "resolved" /\ ~settled.join[k].ok)
    => EmptyTriple

\* C4: when the three fetches of a join resolved (status OK) with JSON
\* bodies, the success handler completes without raising, and the view it
\* commits holds one point per element of the stock body and the metrics of
\* a metrics body that is an object without an error.
C4_TransformationTotal ==
    (HasSettled /\ AllResolved(settled.join)
       /\ \A k \in Endpoints : settled.join[k].ok) =>
       /\ ~settled.threw
       /\ settled.join.stock.body.kind = "array" =>
             Len(stockData) = Len(settled.join.stock.body.items)
       /\ (RawMetrics.kind = "object" /\ RawMetrics.error = None) =>
             metrics # Null

\* C5: the merged series a successful selection commits has |H| + |F|
\* points: first the {date, price} projections of the normalized H in input
\* order, then the {date, converted yhat} projections of F in input order;
\* nothing is dropped or reordered when dates coincide or an input is empty
\* or null.
C5_MergedSeriesShape ==
    Committed =>
       LET H == RawHistorical
           F == RawForecast
       IN  /\ Len(mergedData) = Len(H) + Len(F)
           /\ \A i \in 1..Len(H) :
                 /\ DOMAIN mergedData[i] = {"date", "price"}
                 /\ mergedData[i].date = H[i].date
                 /\ mergedData[i].price = stockData[i].price
           /\ \A j \in 1..Len(F) :
                 /\ DOMAIN mergedData[Len(H) + j] = {"date", "prediction"}
                 /\ mergedData[Len(H) + j].date = F[j].ds
                 /\ IsRounded(mergedData[Len(H) + j].prediction,
                              Coalesce(F[j].yhat, 0) * USD_TO_INR)

\* both inputs have two points and a date of H is a date of F
C5_Witness ==
    /\ Committed
    /\ Len(RawHistorical) = 2
    /\ Len(RawForecast) = 2
    /\ \E i \in 1..2, j \in 1..2 :
          RawHistorical[i].date = RawForecast[j].ds /\ RawForecast[j].ds # None
    /\ Len(mergedData) = 4

\* an empty or null input leaves the other input's projection
C5_WitnessEmpty ==
    /\ Committed
    /\ settled.join.stock.body = Null
    /\ Len(RawForecast) = 2
    /\ Len(mergedData) = 2

\* C6: the triple (stockData, mergedData, metrics) is the empty triple or
\* the transformation of the three responses of the one join that settled
\* last.
C6_NoCarryOver ==
    \/ EmptyTriple
    \/ /\ Committed
       /\ stockData = convertedHistorical(settled.join.stock.body)
       /\ mergedData = merged(stockData, settled.join.predict.body)
       /\ metrics = transformMetrics(RawMetrics)

\* A was selected on mount and B after it; both joins have settled, B's
\* last, and the view holds B's data
C6_Witness ==
    /\ Committed
    /\ companies = <<CompanyA, CompanyB>>
    /\ settled.join.company = CompanyB
    /\ inflight = <<>>
    /\ Len(stockData) = 1
    /\ stockData[1].price = 1660000
    /\ Len(mergedData) = 3
    /\ metrics # Null
    /\ metrics.regression.mae = 1000600

\* C7: when the metrics body of a fulfilled join is null or an object that
\* has an error field, the metrics are null.
C7_MetricsNullPropagation ==
    (HasSettled /\ AllResolved(settled.join)
       /\ (RawMetrics = Null \/ RawMetrics.error # None))
    => metrics = Null

\* C8: for a metrics body without an error field, mae and rmse are the raw
\* values times 83 rounded to 2 decimals; mape, r2, accuracy, precision,
\* recall, f1 and the confusion matrix are the raw values.
C8_MetricsConversionConfined ==
    (Committed /\ RawMetrics.kind = "object" /\ RawMetrics.error = None) =>
       /\ metrics # Null
       /\ RawMetrics.regression # None =>
             LET raw == RawMetrics.regression[1]
                 out == metrics.regression
             IN  /\ raw.mae # None =>
                       IsRounded(out.mae, raw.mae[1] * USD_TO_INR)
                 /\ raw.rmse # None =>
                       IsRounded(out.rmse, raw.rmse[1] * USD_TO_INR)
                 /\ raw.mape # None => out.mape = raw.mape[1]
                 /\ raw.r2 # None => out.r2 = raw.r2[1]
       /\ RawMetrics.classification # None =>
             LET raw == RawMetrics.classification[1]
                 out == metrics.classification
             IN  /\ raw.accuracy # None => out.accuracy = raw.accuracy[1]
                 /\ raw.precision # None => out.precision = raw.precision[1]
                 /\ raw.recall # None => out.recall = raw.recall[1]
                 /\ raw.f1 # None => out.f1 = raw.f1[1]
                 /\ raw.confusion_matrix # None =>
                       out.confusion_matrix = raw.confusion_matrix[1]

\* mae 1 and rmse 2 give 83 and 166, the rest is unchanged
C8_Witness ==
    /\ Committed
    /\ RawMetrics =
          MetricsObject(None, Some(FullRegression), Some(FullClassification))
    /\ metrics.regression =
          [mae |-> 830000, rmse |-> 1660000, mape |-> 30000, r2 |-> 9000]
    /\ metrics.classification =
          [accuracy |-> 8000, precision |-> 7000, recall |-> 6000,
           f1 |-> 6500,
           confusion_matrix |-> [tn |-> 1, fp |-> 2, fn |-> 3, tp |-> 4]]

\* C9: for a metrics body without an error field, the result has both
\* sections; every numeric field the body lacks is 0 and a confusion matrix
\* it lacks is the zero matrix.
C9_MetricsDefaults ==
    (Committed /\ RawMetrics.kind = "object" /\ RawMetrics.error = None) =>
       LET rawR == Coalesce(RawMetrics.regression, NoRegression)
           rawC == Coalesce(RawMetrics.classification, NoClassification)
       IN  /\ metrics # Null
           /\ DOMAIN metrics.regression = {"mae", "rmse", "mape", "r2"}
           /\ DOMAIN metrics.classification =
                 {"accuracy", "precision", "recall", "f1", "confusion_matrix"}
           /\ \A f \in {"mae", "rmse", "mape", "r2"} :
                 rawR[f] = None => metrics.regression[f] = 0
           /\ \A f \in {"accuracy", "precision", "recall", "f1"} :
                 rawC[f] = None => metrics.classification[f] = 0
           /\ rawC.confusion_matrix = None =>
                 metrics.classification.confusion_matrix =
                    [tn |-> 0, fp |-> 0, fn |-> 0, tp |-> 0]

\* the body has a regression section and no classification section
C9_Witness ==
    /\ Committed
    /\ RawMetrics = MetricsObject(None, Some(PartialRegression), None)
    /\ metrics.regression =
          [mae |-> 1000600, rmse |-> 0, mape |-> 0, r2 |-> 9000]
    /\ metrics.classification =
          [accuracy |-> 0, precision |-> 0, recall |-> 0, f1 |-> 0,
           confusion_matrix |-> [tn |-> 0, fp |-> 0, fn |-> 0, tp |-> 0]]

\* the body has a classification section without a confusion matrix
C9_WitnessNoMatrix ==
    /\ Committed
    /\ RawMetrics.kind = "object"
    /\ RawMetrics.error = None
    /\ RawMetrics.classification # None
    /\ RawMetrics.classification[1].confusion_matrix = None
    /\ metrics.classification.confusion_matrix =
          [tn |-> 0, fp |-> 0, fn |-> 0, tp |-> 0]

\* C10: the normalized historical series has the input's length and order;
\* each record keeps its date and volume and its price is the raw price (0
\* when missing) times 83 rounded to 2 decimals.
C10_HistoricalNormalization ==
    Committed =>
       /\ Len(stockData) = Len(RawHistorical)
       /\ \A i \in 1..Len(RawHistorical) :
             /\ stockData[i].date = RawHistorical[i].date
             /\ stockData[i].volume = RawHistorical[i].volume
             /\ IsRounded(stockData[i].price,
                          Coalesce(RawHistorical[i].price, 0) * USD_TO_INR)

\* 1.2045 gives 99.97, 1.2055 gives 100.06
C10_Witness ==
    /\ Committed
    /\ Len(RawHistorical) = 2
    /\ RawHistorical[1].price = Some(12045)
    /\ RawHistorical[2].price = Some(12055)
    /\ stockData[1].price = 999700
    /\ stockData[2].price = 1000600
    /\ stockData[2].volume = None

\* a record without a price gets price 0
C10_WitnessMissingPrice ==
    /\ Committed
    /\ Len(RawHistorical) = 1
    /\ RawHistorical[1].price = None
    /\ stockData[1].price = 0

\* C11: getPriceChange gives change 0 and percentage 0 for a series of
\* fewer than 2 points; otherwise change is the last price minus the one
\* before it and percentage is change divided by that previous price, times
\* 100, computed from the last two points alone, a zero previous price being
\* divided by like any other.
C11_PriceChange ==
    LET n == Len(stockData)
        r == getPriceChange(stockData)
    IN  IF n < 2
        THEN r.change = 0 /\ r.percentage.kind = "finite" /\ r.percentage.num = 0
        ELSE LET last == stockData[n].price
                 prev == stockData[n - 1].price
             IN  /\ r.change = last - prev
                 /\ prev # 0 =>
                       /\ r.percentage.kind = "finite"
                       /\ r.percentage.num = (last - prev) * 100
                       /\ r.percentage.den = prev
                 /\ prev = 0 =>
                       r.percentage.kind =
                          IF last = 0 THEN "NaN"
                          ELSE IF last > 0 THEN "Infinity" ELSE "-Infinity"

\* three points, the last two 100 and 110: change 10, percentage 10
C11_Witness ==
    /\ Len(stockData) = 3
    /\ stockData[1].price = 0
    /\ stockData[2].price = 1000000
    /\ stockData[3].price = 1100000
    /\ getPriceChange(stockData).change = 100000
    /\ getPriceChange(stockData).percentage.num
          = 10 * getPriceChange(stockData).percentage.den

\* a single point
C11_WitnessSinglePoint ==
    /\ Len(stockData) = 1
    /\ getPriceChange(stockData) = [change |-> 0, percentage |-> Quotient(0, 1)]

\* a previous price of 0
C11_WitnessZeroPrevious ==
    /\ Len(stockData) = 2
    /\ stockData[1].price = 0
    /\ stockData[2].price = 1000000
    /\ getPriceChange(stockData).percentage.kind = "Infinity"

Triple == <<stockData, mergedData, metrics>>

\* C12: a selection issues its three fetches together, all pending; a step
\* that settles no join (a selection, a fetch that resolves while another of
\* its join is pending) leaves stockData, mergedData and metrics unchanged;
\* and a step that writes a populated triple is the one step in which a join
\* whose three fetches have all resolved settles.
C12_JoinBeforeBuild ==
    [][/\ Len(inflight') = Len(inflight) + 1 =>
             inflight'[Len(inflight')] = NewJoin(selectedStock')
       /\ Len(inflight') >= Len(inflight) => Triple' = Triple
       /\ (Triple' # Triple /\ ~EmptyTriple') =>
             /\ Len(inflight') = Len(inflight) - 1
             /\ HasSettled'
             /\ AllResolved(settled'.join)]_vars

\* two of the three responses of the one selection made so far have arrived
\* and nothing has been written
C12_Witness ==
    /\ Len(inflight) = 1
    /\ inflight[1].stock.st = "resolved"
    /\ inflight[1].predict.st = "resolved"
    /\ inflight[1].metrics.st = "pending"
    /\ settled = Null
    /\ EmptyTriple
    /\ loading

\* C13: while the fetches of the most recently selected symbol have not
\* settled, loading is true.
C13_LoadingCoversLatest ==
    (\E i \in 1..Len(inflight) : inflight[i].latest) => loading

\* C14: until the symbols fetch issued on mount settles nothing is listed,
\* selected or fetched; the step in which it settles either leaves an empty
\* list and no selection (it resolved with an empty list, or failed), or
\* leaves the list it resolved with, its first item selected, loading true
\* and that item's three fetches in flight; there is only one such step.
C14_InitialLoad ==
    /\ [](symbolsReq = "pending" =>
            /\ companies = <<>>
            /\ selectedStock = Null
            /\ inflight = <<>>
            /\ ~loading)
    /\ [][symbolsReq = "pending" /\ symbolsReq' = "done" =>
            \/ /\ companies' = <<>>
               /\ selectedStock' = Null
               /\ inflight' = <<>>
               /\ ~loading'
            \/ /\ companies' \in SymbolLists \ {<<>>}
               /\ selectedStock' = companies'[1]
               /\ loading'
               /\ inflight' = <<NewJoin(companies'[1])>>]_vars
    /\ [][symbolsReq = "done" => symbolsReq' = "done" /\ companies' = companies]_vars

\* the list <<BBB>> has arrived and BBB is selected with its fetches pending
C14_Witness ==
    /\ symbolsReq = "done"
    /\ companies = <<CompanyB>>
    /\ selectedStock = CompanyB
    /\ loading
    /\ inflight = <<NewJoin(CompanyB)>>
    /\ settled = Null
    /\ EmptyTriple

\* the symbols fetch has settled with no list and nothing is selected
C14_WitnessEmpty ==
    /\ symbolsReq = "done"
    /\ companies = <<>>
    /\ selectedStock = Null
    /\ inflight = <<>>
    /\ ~loading

\* C15: when every fetch in flight settles in the end, loading, once true,
\* becomes false again, whether the join fulfilled, rejected or its success
\* handler raised; it is false whenever no fetch is in flight, and it turns
\* true only in a step that makes a selection.
C15_LoadingEnds ==
    /\ loading ~> ~loading
    /\ [](inflight = <<>> => ~loading)
    /\ [][(~loading /\ loading') => Len(inflight') = Len(inflight) + 1]_vars

\* the success handler of the last join in flight has raised and loading is
\* false
C15_Witness ==
    /\ HasSettled
    /\ AllResolved(settled.join)
    /\ settled.threw
    /\ inflight = <<>>
    /\ ~loading

\* the last join in flight has rejected and loading is false
C15_WitnessRejected ==
    /\ HasSettled
    /\ AnyRejected(settled.join)
    /\ inflight = <<>>
    /\ ~loading

=============================================================================
